---------------------------- MODULE Spec2Model ----------------------------
(***************************************************************************)
(* Fuzzy navigation simulator: the fuzzy inference engine, the navigation  *)
(* controller built on it, the geometry helpers and the simulation stepper *)
(* with its run loop.                                                      *)
(*                                                                         *)
(* The program computes in f64.  The model computes in fixed point:        *)
(*   lengths        in 1/LenScale   map units                              *)
(*   angles         in 1/AngScale   radians                                *)
(*   angular rates  in 1/AngScale   radians per second                     *)
(*   times          in 1/TimeScale  seconds                                *)
(*   degrees of membership and ratios in 1/DegScale                        *)
(*   sines and cosines in 1/TrigScale                                      *)
(* Products are rescaled in the order the source multiplies.               *)
(***************************************************************************)
EXTENDS Integers, Sequences, FiniteSets, TLC

LenScale == 100
AngScale == 10000
TimeScale == 1000
DegScale == 100
TrigScale == 10000

\* std::f64::consts::PI in 1/AngScale radians
PI == 31416

\* f64::EPSILON.  f64 tells apart values closer to each other than EPSILON;
\* for the model to have such values too, EPSILON spans two units of the fixed
\* point: "< EPSILON" holds of a magnitude of 0 and of a magnitude of 1 unit
EPSILON == 2

Abs(v) == IF v < 0 THEN -v ELSE v

Min2(u, v) == IF u < v THEN u ELSE v

Max2(u, v) == IF u > v THEN u ELSE v

\* f64 division and rescaling, rounded to nearest, symmetric about 0
RDiv(n, d) ==
    LET an == Abs(n)
        ad == Abs(d)
        q  == (2 * an + ad) \div (2 * ad)
    IN IF (n < 0) = (d < 0) THEN q ELSE -q

\* f64::to_radians, from 1/100 degree to 1/AngScale radian
ToRadians(centideg) == RDiv(centideg * PI, 18000)

\* f64::to_degrees, from 1/AngScale radian to 1/100 degree: rad * 180 / PI,
\* the whole half turns converted apart from the remainder
ToDegrees(rad) ==
    LET a == Abs(rad)
        d == 18000 * (a \div PI) + RDiv((a % PI) * 18000, PI)
    IN IF rad < 0 THEN -d ELSE d

\* f64::sqrt on a non-negative integer, rounded down
RECURSIVE SqrtSearch(_, _, _)
SqrtSearch(n, lo, hi) ==
    IF lo >= hi THEN lo
    ELSE LET mid == (lo + hi + 1) \div 2
         IN IF mid * mid <= n THEN SqrtSearch(n, mid, hi)
            ELSE SqrtSearch(n, lo, mid - 1)

Sqrt(n) == SqrtSearch(n, 0, 46340)


(***************************************************************************)
(* Fuzzy inference engine                                                  *)
(***************************************************************************)

\* what a constructor whose assert! fails leaves its caller with: a panic
Panic(message) == [kind |-> "panic", message |-> message]

\* triangular(a, b, c)
triangular(a, b, c) ==
    IF a <= b /\ b <= c
    THEN [kind |-> "triangular", a |-> a, b |-> b, c |-> c]
    ELSE Panic("Triangular membership function requires a <= b <= c")

\* trapezoidal(a, b, c, d)
trapezoidal(a, b, c, d) ==
    IF a <= b /\ b <= c /\ c <= d
    THEN [kind |-> "trapezoidal", a |-> a, b |-> b, c |-> c, d |-> d]
    ELSE Panic("Trapezoidal membership function requires a <= b <= c <= d")

\* gaussian(mean, sigma)
gaussian(mean, sigma) ==
    IF sigma > 0
    THEN [kind |-> "gaussian", mean |-> mean, sigma |-> sigma]
    ELSE Panic("Gaussian membership function requires sigma > 0")

\* sigmoidal(a, c)
sigmoidal(a, c) ==
    IF Abs(a) > EPSILON
    THEN [kind |-> "sigmoidal", a |-> a, c |-> c]
    ELSE Panic("Sigmoidal membership function requires a != 0")

TriangularEvaluate(mf, input) ==
    IF input < mf.a \/ input > mf.c THEN 0
    ELSE IF Abs(input - mf.b) < EPSILON THEN DegScale
    ELSE IF input < mf.b
         THEN LET denominator == mf.b - mf.a
              IN IF Abs(denominator) < EPSILON THEN 0
                 ELSE RDiv((input - mf.a) * DegScale, denominator)
         ELSE LET denominator == mf.c - mf.b
              IN IF Abs(denominator) < EPSILON THEN 0
                 ELSE RDiv((mf.c - input) * DegScale, denominator)

TrapezoidalEvaluate(mf, input) ==
    IF input < mf.a \/ input > mf.d THEN 0
    ELSE IF input >= mf.b /\ input <= mf.c THEN DegScale
    ELSE IF input < mf.b
         THEN LET denominator == mf.b - mf.a
              IN IF Abs(denominator) < EPSILON THEN 0
                 ELSE RDiv((input - mf.a) * DegScale, denominator)
         ELSE LET denominator == mf.d - mf.c
              IN IF Abs(denominator) < EPSILON THEN 0
                 ELSE RDiv((mf.d - input) * DegScale, denominator)

\* f64 NaN, the result of 0.0 / 0.0: a value outside every range of numbers
NaN == -32768

\* f64::exp of -t for t >= 0 in 1/DegScale, the result in 1/TrigScale: the
\* Taylor polynomial up to 0.5, the square of exp(-t/2) above
RECURSIVE ExpNeg(_)
ExpNeg(t) ==
    IF t > 50
    THEN LET h == ExpNeg(t \div 2)
             sq == RDiv(h * h, TrigScale)
         IN IF t % 2 = 0 THEN sq ELSE RDiv(sq * 9900, TrigScale)
    ELSE LET x == t * (TrigScale \div DegScale)
             x2 == RDiv(x * x, TrigScale)
             x3 == RDiv(x2 * x, TrigScale)
             x4 == RDiv(x3 * x, TrigScale)
         IN TrigScale - x + RDiv(x2, 2) - RDiv(x3, 6) + RDiv(x4, 24)

\* GaussianMembershipFunction::evaluate, the operands in 1/DegScale: the
\* squares are rounded to the fixed point as f64 rounds them, so the square of
\* a small enough sigma is 0; a negative number over 0 is -inf, whose exp is
\* 0, and 0 over 0 is NaN, whose exp is NaN
GaussianEvaluate(mf, input) ==
    LET square == RDiv((input - mf.mean) * (input - mf.mean), DegScale)
        divisor == 2 * RDiv(mf.sigma * mf.sigma, DegScale)
    IN IF divisor = 0
       THEN IF square = 0 THEN NaN ELSE 0
       ELSE RDiv(ExpNeg(RDiv(square * DegScale, divisor)), TrigScale \div DegScale)

\* SigmoidalMembershipFunction::evaluate, the operands in 1/DegScale:
\* 1 / (1 + exp(z)) with z = -a * (input - c); for z > 0 that is e / (e + 1)
\* with e = exp(-z), and 0 once exp(z) has overflowed to infinity
SigmoidalEvaluate(mf, input) ==
    LET z == RDiv(-mf.a * (input - mf.c), DegScale)
        e == ExpNeg(Abs(z))
    IN IF z <= 0 THEN RDiv(DegScale * TrigScale, TrigScale + e)
       ELSE RDiv(DegScale * e, TrigScale + e)

\* MembershipFunction::evaluate, dispatched on the variant
MfEvaluate(mf, input) ==
    CASE mf.kind = "triangular" -> TriangularEvaluate(mf, input)
      [] mf.kind = "trapezoidal" -> TrapezoidalEvaluate(mf, input)
      [] mf.kind = "gaussian" -> GaussianEvaluate(mf, input)
      [] mf.kind = "sigmoidal" -> SigmoidalEvaluate(mf, input)

FuzzySet(name, mf) == [name |-> name, membership_function |-> mf]

LinguisticVariable(name, range, sets) ==
    [name |-> name, range |-> range, fuzzy_sets |-> sets]

SetNames(var) == {var.fuzzy_sets[i].name : i \in DOMAIN var.fuzzy_sets}

SetNamed(var, name) ==
    var.fuzzy_sets[CHOOSE i \in DOMAIN var.fuzzy_sets :
                       var.fuzzy_sets[i].name = name]

\* LinguisticVariable::fuzzify: set name -> degree, every set evaluated
Fuzzify(var, value) ==
    [n \in SetNames(var) |-> MfEvaluate(SetNamed(var, n).membership_function, value)]

Antecedent(set, variable) == [set |-> set, variable |-> variable]

Consequent(set, variable) == [set |-> set, variable |-> variable]

FuzzyRule(antecedents, consequents, operator) ==
    [antecedents |-> antecedents, consequents |-> consequents,
     operator |-> operator]

\* a loop over the antecedents that counts an unresolved one as degree 0
RECURSIVE RuleDegreesZeroFilled(_, _, _)
RuleDegreesZeroFilled(rule, inputs, i) ==
    IF i > Len(rule.antecedents) THEN <<>>
    ELSE LET ant == rule.antecedents[i]
             rest == RuleDegreesZeroFilled(rule, inputs, i + 1)
         IN IF ant.variable \in DOMAIN inputs
               /\ ant.set \in DOMAIN inputs[ant.variable]
            THEN <<inputs[ant.variable][ant.set]>> \o rest
            ELSE <<0>> \o rest

\* the degrees pushed by the loop over the antecedents: unresolved ones skipped
RECURSIVE RuleDegrees(_, _, _)
RuleDegrees(rule, inputs, i) ==
    IF i > Len(rule.antecedents) THEN <<>>
    ELSE LET ant == rule.antecedents[i]
             rest == RuleDegrees(rule, inputs, i + 1)
         IN IF ant.variable \in DOMAIN inputs
               /\ ant.set \in DOMAIN inputs[ant.variable]
            THEN <<inputs[ant.variable][ant.set]>> \o rest
            ELSE rest

RECURSIVE ReduceMin(_)
ReduceMin(s) ==
    IF Len(s) = 1 THEN s[1] ELSE Min2(s[1], ReduceMin(Tail(s)))

RECURSIVE ReduceMax(_)
ReduceMax(s) ==
    IF Len(s) = 1 THEN s[1] ELSE Max2(s[1], ReduceMax(Tail(s)))

\* FuzzyRule::evaluate
RuleEvaluate(rule, inputs) ==
    LET degrees == RuleDegrees(rule, inputs, 1)
    IN IF degrees = <<>> THEN 0
       ELSE IF rule.operator = "And" THEN ReduceMin(degrees)
       ELSE ReduceMax(degrees)

\* the fuzzification phase of FuzzySystem::evaluate: only the variables
\* present in the caller's inputs
FuzzifyInputs(system, inputs) ==
    LET present == {i \in DOMAIN system.input_variables :
                        system.input_variables[i].name \in DOMAIN inputs}
        names == {system.input_variables[i].name : i \in present}
        VarNamed(n) == system.input_variables[
                           CHOOSE i \in present : system.input_variables[i].name = n]
    IN [n \in names |-> Fuzzify(VarNamed(n), inputs[n])]

\* the entry of one output set after a rule of the given degree has named it
EntrySum(activated, set, degree) ==
    IF set \in DOMAIN activated THEN activated[set] + degree ELSE degree

\* entry(set).or_insert(0.0).max(degree)
Entry(activated, set, degree) ==
    IF set \in DOMAIN activated THEN Max2(activated[set], degree) ELSE Max2(0, degree)

\* a validation of the consequent that lets every set through
KnownOutputSetUnchecked(system, set) == TRUE

\* output_variable.fuzzy_sets.iter().any(|s| s.name == consequent.set)
KnownOutputSet(system, set) == set \in SetNames(system.output_variable)

\* the consequent loop of one rule
RECURSIVE ApplyConsequents(_, _, _, _, _)
ApplyConsequents(system, rule, degree, activated, j) ==
    IF j > Len(rule.consequents) THEN activated
    ELSE LET set == rule.consequents[j].set
             next ==
               IF ~KnownOutputSet(system, set) THEN activated
               ELSE [n \in DOMAIN activated \cup {set} |->
                        IF n = set THEN Entry(activated, set, degree)
                        ELSE activated[n]]
         IN ApplyConsequents(system, rule, degree, next, j + 1)

\* the rule loop of FuzzySystem::evaluate
RECURSIVE Aggregate(_, _, _, _)
Aggregate(system, fuzzyfied, activated, i) ==
    IF i > Len(system.rules) THEN activated
    ELSE LET rule == system.rules[i]
             degree == RuleEvaluate(rule, fuzzyfied)
         IN Aggregate(system, fuzzyfied,
                      ApplyConsequents(system, rule, degree, activated, 1), i + 1)

\* the empty HashMap
EmptyMap == [n \in {} |-> 0]

\* let steps = 1000 in Defuzzifier::centroid
steps == 1000

\* sample i of the output range: range.0 + i * step_size
SampleX(range, i) == range[1] + RDiv(i * (range[2] - range[1]), steps)

\* an aggregation that keeps the clipped membership of the last activated set
\* instead of the maximum
RECURSIVE AggregatedMembershipLast(_, _, _, _)
AggregatedMembershipLast(output_var, activated, x, k) ==
    IF k > Len(output_var.fuzzy_sets) THEN 0
    ELSE LET set == output_var.fuzzy_sets[k]
             rest == AggregatedMembershipLast(output_var, activated, x, k + 1)
             later == \E l \in (k + 1)..Len(output_var.fuzzy_sets) :
                         output_var.fuzzy_sets[l].name \in DOMAIN activated
         IN IF set.name \in DOMAIN activated /\ ~later
            THEN Min2(MfEvaluate(set.membership_function, x), activated[set.name])
            ELSE rest

\* aggregated_membership at x: max over the activated sets of the clipped set
RECURSIVE AggregatedMembership(_, _, _, _)
AggregatedMembership(output_var, activated, x, k) ==
    IF k > Len(output_var.fuzzy_sets) THEN 0
    ELSE LET set == output_var.fuzzy_sets[k]
             rest == AggregatedMembership(output_var, activated, x, k + 1)
         IN IF set.name \in DOMAIN activated
            THEN Max2(rest, Min2(MfEvaluate(set.membership_function, x),
                                 activated[set.name]))
            ELSE rest

\* sums that weigh the two end samples by one half, as the trapezoidal rule does
RECURSIVE CentroidSumsTrapezoidal(_, _, _, _)
CentroidSumsTrapezoidal(output_var, activated, lo, hi) ==
    IF lo = hi
    THEN LET x == SampleX(output_var.range, lo)
             m == AggregatedMembership(output_var, activated, x, 1)
             w == IF lo = 0 \/ lo = steps THEN m \div 2 ELSE m
         IN <<x * w, w>>
    ELSE LET mid == (lo + hi) \div 2
             l == CentroidSumsTrapezoidal(output_var, activated, lo, mid)
             r == CentroidSumsTrapezoidal(output_var, activated, mid + 1, hi)
         IN <<l[1] + r[1], l[2] + r[2]>>

\* <<numerator, denominator>> accumulated over the samples lo..hi
RECURSIVE CentroidSums(_, _, _, _)
CentroidSums(output_var, activated, lo, hi) ==
    IF lo = hi
    THEN LET x == SampleX(output_var.range, lo)
             m == AggregatedMembership(output_var, activated, x, 1)
         IN <<x * m, m>>
    ELSE LET mid == (lo + hi) \div 2
             l == CentroidSums(output_var, activated, lo, mid)
             r == CentroidSums(output_var, activated, mid + 1, hi)
         IN <<l[1] + r[1], l[2] + r[2]>>

\* a centroid that falls back to the lower end of the range
centroid_from_minimum(output_var, activated) ==
    LET sums == CentroidSums(output_var, activated, 0, steps)
    IN IF sums[2] < EPSILON
       THEN output_var.range[1]
       ELSE RDiv(sums[1], sums[2])

\* Defuzzifier::centroid
centroid(output_var, activated) ==
    LET sums == CentroidSums(output_var, activated, 0, steps)
    IN IF sums[2] < EPSILON
       THEN RDiv(output_var.range[1] + output_var.range[2], 2)
       ELSE RDiv(sums[1], sums[2])

\* FuzzySystem::evaluate: the defuzzified value of the output variable
SystemEvaluate(system, inputs) ==
    LET fuzzyfied == FuzzifyInputs(system, inputs)
        activated == Aggregate(system, fuzzyfied, EmptyMap, 1)
    IN centroid(system.output_variable, activated)


(***************************************************************************)
(* Vehicle presets and the navigation controller                           *)
(***************************************************************************)

VehicleTypes == {"Heavy", "Standard", "Agile", "UltraAgile"}

\* create_vehicle_preset
create_vehicle_preset(vehicle_type) ==
    CASE vehicle_type = "Heavy" ->
           [size |-> 15 * LenScale, maneuverability |-> ToRadians(2000),
            max_velocity |-> 50 * LenScale, max_acceleration |-> 10 * LenScale]
      [] vehicle_type = "Standard" ->
           [size |-> 10 * LenScale, maneuverability |-> ToRadians(3500),
            max_velocity |-> 80 * LenScale, max_acceleration |-> 20 * LenScale]
      [] vehicle_type = "Agile" ->
           [size |-> 6 * LenScale, maneuverability |-> ToRadians(6000),
            max_velocity |-> 100 * LenScale, max_acceleration |-> 30 * LenScale]
      [] vehicle_type = "UltraAgile" ->
           [size |-> 8 * LenScale, maneuverability |-> ToRadians(9000),
            max_velocity |-> 70 * LenScale, max_acceleration |-> 25 * LenScale]

\* a rule base without the two override rules
NavigationRulesWithoutOverrides ==
    LET Rule(distance, error, adjustment) ==
          FuzzyRule(<<Antecedent(distance, "distancia_al_objetivo"),
                      Antecedent(error, "error_angular")>>,
                    <<Consequent(adjustment, "ajuste_angular")>>, "And")
    IN << Rule("lejos", "alineado", "mantener"),
          Rule("lejos", "desviado_der", "girar_der"),
          Rule("lejos", "desviado_izq", "girar_izq"),
          Rule("media", "alineado", "mantener"),
          Rule("media", "desviado_der", "leve_der"),
          Rule("media", "desviado_izq", "leve_izq"),
          Rule("muy_cerca", "alineado", "mantener"),
          Rule("muy_cerca", "desviado_izq", "leve_izq"),
          Rule("muy_cerca", "desviado_der", "leve_der") >>

\* a rule base whose last two rules, the ones for a near target, turn to the
\* side opposite to the deviation
NavigationRulesSteeringAway ==
    LET Rule(distance, error, adjustment) ==
          FuzzyRule(<<Antecedent(distance, "distancia_al_objetivo"),
                      Antecedent(error, "error_angular")>>,
                    <<Consequent(adjustment, "ajuste_angular")>>, "And")
        Override(error, adjustment) ==
          FuzzyRule(<<Antecedent(error, "error_angular")>>,
                    <<Consequent(adjustment, "ajuste_angular")>>, "And")
    IN << Rule("lejos", "alineado", "mantener"),
          Rule("lejos", "desviado_der", "girar_der"),
          Rule("lejos", "desviado_izq", "girar_izq"),
          Rule("media", "alineado", "mantener"),
          Rule("media", "desviado_der", "leve_der"),
          Rule("media", "desviado_izq", "leve_izq"),
          Rule("muy_cerca", "alineado", "mantener"),
          Override("muy_desviado_izq", "girar_izq"),
          Override("muy_desviado_der", "girar_der"),
          Rule("muy_cerca", "desviado_izq", "leve_der"),
          Rule("muy_cerca", "desviado_der", "leve_izq") >>

\* the rule base built by NavigationController::new, in source order
NavigationRules ==
    << FuzzyRule(<<Antecedent("lejos", "distancia_al_objetivo"),
                   Antecedent("alineado", "error_angular")>>,
                 <<Consequent("mantener", "ajuste_angular")>>, "And"),
       FuzzyRule(<<Antecedent("lejos", "distancia_al_objetivo"),
                   Antecedent("desviado_der", "error_angular")>>,
                 <<Consequent("girar_der", "ajuste_angular")>>, "And"),
       FuzzyRule(<<Antecedent("lejos", "distancia_al_objetivo"),
                   Antecedent("desviado_izq", "error_angular")>>,
                 <<Consequent("girar_izq", "ajuste_angular")>>, "And"),
       FuzzyRule(<<Antecedent("media", "distancia_al_objetivo"),
                   Antecedent("alineado", "error_angular")>>,
                 <<Consequent("mantener", "ajuste_angular")>>, "And"),
       FuzzyRule(<<Antecedent("media", "distancia_al_objetivo"),
                   Antecedent("desviado_der", "error_angular")>>,
                 <<Consequent("leve_der", "ajuste_angular")>>, "And"),
       FuzzyRule(<<Antecedent("media", "distancia_al_objetivo"),
                   Antecedent("desviado_izq", "error_angular")>>,
                 <<Consequent("leve_izq", "ajuste_angular")>>, "And"),
       FuzzyRule(<<Antecedent("muy_cerca", "distancia_al_objetivo"),
                   Antecedent("alineado", "error_angular")>>,
                 <<Consequent("mantener", "ajuste_angular")>>, "And"),
       FuzzyRule(<<Antecedent("muy_desviado_izq", "error_angular")>>,
                 <<Consequent("girar_izq", "ajuste_angular")>>, "And"),
       FuzzyRule(<<Antecedent("muy_desviado_der", "error_angular")>>,
                 <<Consequent("girar_der", "ajuste_angular")>>, "And"),
       FuzzyRule(<<Antecedent("muy_cerca", "distancia_al_objetivo"),
                   Antecedent("desviado_izq", "error_angular")>>,
                 <<Consequent("leve_izq", "ajuste_angular")>>, "And"),
       FuzzyRule(<<Antecedent("muy_cerca", "distancia_al_objetivo"),
                   Antecedent("desviado_der", "error_angular")>>,
                 <<Consequent("leve_der", "ajuste_angular")>>, "And") >>

\* NavigationController::new: the fuzzy system of a vehicle
NavigationController(characteristics) ==
    LET m == characteristics.maneuverability
        dist_var ==
          LinguisticVariable("distancia_al_objetivo", <<0, 1000 * LenScale>>,
            << FuzzySet("muy_cerca", trapezoidal(0, 0, 50 * LenScale, 100 * LenScale)),
               FuzzySet("media", triangular(80 * LenScale, 200 * LenScale, 400 * LenScale)),
               FuzzySet("lejos", trapezoidal(350 * LenScale, 500 * LenScale,
                                             1000 * LenScale, 1000 * LenScale)) >>)
        error_var ==
          LinguisticVariable("error_angular", <<-PI, PI>>,
            << FuzzySet("alineado",
                 trapezoidal(-ToRadians(1000), -ToRadians(500),
                             ToRadians(500), ToRadians(1000))),
               FuzzySet("desviado_izq",
                 triangular(-ToRadians(9000), -ToRadians(4500), -ToRadians(1000))),
               FuzzySet("desviado_der",
                 triangular(ToRadians(1000), ToRadians(4500), ToRadians(9000))),
               FuzzySet("muy_desviado_izq",
                 trapezoidal(-PI, -ToRadians(15000), -ToRadians(12000), -ToRadians(7000))),
               FuzzySet("muy_desviado_der",
                 trapezoidal(ToRadians(7000), ToRadians(12000), ToRadians(15000), PI)) >>)
        vel_var ==
          LinguisticVariable("velocidad_relativa", <<0, DegScale>>,
            << FuzzySet("lenta", triangular(0, 0, RDiv(3 * DegScale, 10))),
               FuzzySet("media", triangular(RDiv(2 * DegScale, 10), RDiv(5 * DegScale, 10),
                                            RDiv(8 * DegScale, 10))),
               FuzzySet("rapida", trapezoidal(RDiv(7 * DegScale, 10), DegScale,
                                              DegScale, DegScale)) >>)
        ang_out_var ==
          LinguisticVariable("ajuste_angular", <<-m, m>>,
            << FuzzySet("girar_izq", triangular(-m, RDiv(-7 * m, 10), RDiv(-3 * m, 10))),
               FuzzySet("leve_izq", triangular(RDiv(-4 * m, 10), RDiv(-2 * m, 10), 0)),
               FuzzySet("mantener", triangular(RDiv(-m, 10), 0, RDiv(m, 10))),
               FuzzySet("leve_der", triangular(0, RDiv(2 * m, 10), RDiv(4 * m, 10))),
               FuzzySet("girar_der", triangular(RDiv(3 * m, 10), RDiv(7 * m, 10), m)) >>)
    IN [input_variables |-> <<dist_var, error_var, vel_var>>,
        output_variable |-> ang_out_var,
        rules |-> NavigationRules]

\* a controller that also asks for the acceleration the steering suggests
compute_control_accelerating(controller, distance_to_target, angular_error, velocity_relative) ==
    LET inputs == [n \in {"distancia_al_objetivo", "error_angular", "velocidad_relativa"} |->
                     CASE n = "distancia_al_objetivo" -> distance_to_target
                       [] n = "error_angular" -> angular_error
                       [] n = "velocidad_relativa" -> velocity_relative]
        angular_adjustment == SystemEvaluate(controller, inputs)
    IN <<angular_adjustment, IF distance_to_target > 0 THEN DegScale ELSE 0>>

\* NavigationController::compute_control: <<angular_adjustment, velocity_adjustment>>
compute_control(controller, distance_to_target, angular_error, velocity_relative) ==
    LET inputs == [n \in {"distancia_al_objetivo", "error_angular", "velocidad_relativa"} |->
                     CASE n = "distancia_al_objetivo" -> distance_to_target
                       [] n = "error_angular" -> angular_error
                       [] n = "velocidad_relativa" -> velocity_relative]
        angular_adjustment == SystemEvaluate(controller, inputs)
        velocity_adjustment == 0
    IN <<angular_adjustment, velocity_adjustment>>


(***************************************************************************)
(* Geometry helpers                                                        *)
(***************************************************************************)

Point(x, y) == [x |-> x, y |-> y]

\* euclidean_distance
euclidean_distance(p1, p2) ==
    LET dx == p2.x - p1.x
        dy == p2.y - p1.y
    IN Sqrt(dx * dx + dy * dy)

\* a normalization that wraps once instead of looping
normalize_angle_once(angle) ==
    IF angle > PI THEN angle - 2 * PI
    ELSE IF angle < -PI THEN angle + 2 * PI
    ELSE angle

\* normalize_angle: the two while loops
RECURSIVE normalize_angle(_)
normalize_angle(angle) ==
    IF angle > PI THEN normalize_angle(angle - 2 * PI)
    ELSE IF angle < -PI THEN normalize_angle(angle + 2 * PI)
    ELSE angle

\* f64::sin on [-PI/2, PI/2]: the odd polynomial x - x^3/3! + ... + x^9/9!
SinPoly(x) ==
    LET x2 == RDiv(x * x, AngScale)
        t3 == RDiv(x * x2, 6 * AngScale)
        t5 == RDiv(t3 * x2, 20 * AngScale)
        t7 == RDiv(t5 * x2, 42 * AngScale)
        t9 == RDiv(t7 * x2, 72 * AngScale)
    IN RDiv((x - t3 + t5 - t7 + t9) * TrigScale, AngScale)

\* the argument reduction of f64::sin and f64::cos, into [-PI, PI)
Reduce(a) == ((a + PI) % (2 * PI)) - PI

\* f64::sin
Sin(a) ==
    LET r == Reduce(a)
    IN IF r > RDiv(PI, 2) THEN SinPoly(PI - r)
       ELSE IF r < -RDiv(PI, 2) THEN SinPoly(-PI - r)
       ELSE SinPoly(r)

\* f64::cos
Cos(a) == SinPoly(RDiv(PI, 2) - Abs(Reduce(a)))

\* atan of a ratio z in [0, 1] (in 1/TrigScale):
\* (PI/4) z + z (1 - z) (0.2447 + 0.0663 z), within 0.0015 rad
AtanUnit(z) ==
    LET c == 2447 + RDiv(663 * z, TrigScale)
        t == RDiv(z * (TrigScale - z), TrigScale)
    IN RDiv(RDiv(PI, 4) * z, TrigScale) + RDiv(t * c, TrigScale)

\* f64::atan2(dy, dx), in [-PI, PI]
Atan2(dy, dx) ==
    LET ax == Abs(dx)
        ay == Abs(dy)
        base == IF ax = 0 /\ ay = 0 THEN 0
                ELSE IF ax >= ay THEN AtanUnit(RDiv(ay * TrigScale, ax))
                ELSE RDiv(PI, 2) - AtanUnit(RDiv(ax * TrigScale, ay))
        upper == IF dx >= 0 THEN base ELSE PI - base
    IN IF dy < 0 THEN -upper ELSE upper

\* compute_angular_error
compute_angular_error(current_pos, current_angle, target_pos) ==
    LET dx == target_pos.x - current_pos.x
        dy == target_pos.y - current_pos.y
        desired_angle == Atan2(dy, dx)
    IN normalize_angle(desired_angle - current_angle)

APPROACH_START == 120

MAX_OFFSET == 100

\* t.powf(1.5) for t in [0, 1] (in 1/TrigScale): t * sqrt(t)
Powf15(t) == RDiv(t * Sqrt(t * TrigScale), TrigScale)

\* a version that still aims straight at the target at the distance
\* APPROACH_START itself
compute_angular_error_with_arrival_inclusive(current_pos, current_angle, target, distance_to_target) ==
    IF distance_to_target >= APPROACH_START * LenScale
    THEN compute_angular_error(current_pos, current_angle, target.position)
    ELSE LET t == RDiv(distance_to_target * TrigScale, APPROACH_START * LenScale)
             offset == RDiv(MAX_OFFSET * LenScale * Powf15(t), TrigScale)
             approach_point == Point(target.position.x, target.position.y - offset)
         IN compute_angular_error(current_pos, current_angle, approach_point)

\* compute_angular_error_with_arrival
compute_angular_error_with_arrival(current_pos, current_angle, target, distance_to_target) ==
    IF distance_to_target > APPROACH_START * LenScale
    THEN compute_angular_error(current_pos, current_angle, target.position)
    ELSE LET t == RDiv(distance_to_target * TrigScale, APPROACH_START * LenScale)
             offset == RDiv(MAX_OFFSET * LenScale * Powf15(t), TrigScale)
             approach_point == Point(target.position.x, target.position.y - offset)
         IN compute_angular_error(current_pos, current_angle, approach_point)

\* clamp
clamp(value, min, max) ==
    IF value < min THEN min
    ELSE IF value > max THEN max
    ELSE value


(***************************************************************************)
(* Simulation: construction, step() and run()                              *)
(***************************************************************************)

VARIABLES
    map,            \* Simulation.map
    vehicle,        \* Simulation.vehicle
    time,           \* Simulation.time
    dt,             \* Simulation.dt
    max_time,       \* Simulation.max_time
    trajectory,     \* Simulation.trajectory
    pc,             \* where the caller is: "idle", inside run() ("running"),
                    \* returned from run() ("done") or unwound by a panic ("panicked")
    step_count,     \* run()'s local step_count
    print_interval, \* run()'s local print_interval
    result,         \* what run() returned: None or Some(SimulationResult)
    step_calls,     \* history: number of step() calls made so far
    control_calls,  \* history: number of compute_control() calls made so far
    initial,        \* history: the vehicle as Simulation::new built it
    simulations,    \* the other Simulation instances of the driver's Vec, the
                    \* ones the driver is not stepping at the moment
    call            \* the last call made on the fuzzy engine alone, with what
                    \* it returned

simvars == <<map, vehicle, time, dt, max_time, trajectory>>

vars == <<map, vehicle, time, dt, max_time, trajectory,
          pc, step_count, print_interval, result, step_calls, control_calls,
          initial, simulations, call>>

None == <<>>

\* no call on the fuzzy engine alone has been made
NoCall == [fn |-> "none"]

Some(v) == <<v>>

\* the largest number of step() calls explored
MaxSteps == 4

\* Simulation::new: distance_threshold, angle_threshold
distance_threshold == 25 * LenScale

angle_threshold == ToRadians(200)

\* Map::new
MapNew(width, height, target_x, target_y) ==
    [width |-> width, height |-> height,
     start_zone |-> [height_percentage |-> 8],
     target |-> [position |-> Point(target_x, target_y),
                 required_angle |-> RDiv(PI, 2)]]

\* the maps explored
Maps == {MapNew(200 * LenScale, 300 * LenScale, 100 * LenScale, 40 * LenScale)}

\* Map::random_start_position: the sampled points of the start zone
random_start_position(m) ==
    {p \in {Point(x * LenScale, y * LenScale) : x \in {100}, y \in {10, 16}} :
        /\ p.x >= 0 /\ p.x < m.width
        /\ p.y >= 0 /\ p.y < RDiv(m.height * m.start_zone.height_percentage, 100)}

\* Map::random_start_angle: sampled headings in [30 deg, 150 deg)
random_start_angle(m) ==
    {a \in {ToRadians(3000), RDiv(PI, 2) - angle_threshold, RDiv(PI, 2)} :
        a >= ToRadians(3000) /\ a < ToRadians(15000)}

\* Vehicle::new
VehicleNew(vehicle_type, characteristics, initial_position, initial_angle) ==
    [vehicle_type |-> vehicle_type,
     characteristics |-> characteristics,
     state |-> [position |-> initial_position, angle |-> initial_angle, velocity |-> 0],
     has_arrived |-> FALSE,
     distance_traveled |-> 0,
     time_elapsed |-> 0]

\* VehicleType::name
VehicleName(vehicle_type) ==
    CASE vehicle_type = "Heavy" -> "Barco"
      [] vehicle_type = "Standard" -> "Lancha"
      [] vehicle_type = "Agile" -> "Avion"
      [] vehicle_type = "UltraAgile" -> "Ultra-Agile"

\* Simulation::new: constant_velocity
constant_velocity(characteristics) == RDiv(characteristics.max_velocity * 10, 100)

\* the vehicle types, time steps and time limits explored
InitTypes == {"Heavy", "UltraAgile"}

InitDts == {0, 1 * TimeScale, 10 * TimeScale}

InitMaxTimes == {0, 3 * TimeScale}

\* Simulation::new, for every explored argument and random draw
Init ==
    /\ map \in Maps
    /\ \E vehicle_type \in InitTypes :
       \E initial_pos \in random_start_position(map) :
       \E initial_angle \in random_start_angle(map) :
          LET characteristics == create_vehicle_preset(vehicle_type)
              v == VehicleNew(vehicle_type, characteristics, initial_pos, initial_angle)
          IN vehicle = [v EXCEPT !.state.velocity = constant_velocity(characteristics)]
    /\ time = 0
    /\ dt \in InitDts
    /\ max_time \in InitMaxTimes
    /\ trajectory = <<>>
    /\ pc = "idle"
    /\ step_count = 0
    /\ print_interval = 0
    /\ result = None
    /\ step_calls = 0
    /\ control_calls = 0
    /\ initial = vehicle
    /\ simulations = <<>>
    /\ call = NoCall


\* an arrival test that also accepts the thresholds themselves
ArrivalConditionInclusive(distance_to_target, angle_error) ==
    distance_to_target <= distance_threshold /\ angle_error <= angle_threshold

\* the arrival test of step(): both thresholds, strictly
ArrivalCondition(distance_to_target, angle_error) ==
    distance_to_target < distance_threshold /\ angle_error < angle_threshold

\* a position update that overwrites the accumulator with the last step
update_position_overwrite(v, new_position) ==
    LET dx == new_position.x - v.state.position.x
        dy == new_position.y - v.state.position.y
        distance_step == Sqrt(dx * dx + dy * dy)
    IN [v EXCEPT !.distance_traveled = distance_step,
                 !.state.position = new_position]

\* Vehicle::update_position
update_position(v, new_position) ==
    LET dx == new_position.x - v.state.position.x
        dy == new_position.y - v.state.position.y
        distance_step == Sqrt(dx * dx + dy * dy)
    IN [v EXCEPT !.distance_traveled = @ + distance_step,
                 !.state.position = new_position]

\* a snapshot stamped with the clock as it was when the step began
TrajectoryPointStale(t, v, distance_to_target) ==
    [t |-> time,
     x |-> v.state.position.x,
     y |-> v.state.position.y,
     angle |-> ToDegrees(v.state.angle),
     velocity |-> v.state.velocity,
     distance_to_target |-> distance_to_target]

TrajectoryPoint(t, v, distance_to_target) ==
    [t |-> t,
     x |-> v.state.position.x,
     y |-> v.state.position.y,
     angle |-> ToDegrees(v.state.angle),
     velocity |-> v.state.velocity,
     distance_to_target |-> distance_to_target]

\* step(), 1: distance_to_target at the start of the step
DistanceToTarget == euclidean_distance(vehicle.state.position, map.target.position)

\* step(), 2: angle_error at the start of the step
AngleError == Abs(map.target.required_angle - vehicle.state.angle)

\* step(), 3-5: the clamped angular adjustment of the controller
AngularAdjustmentClamped ==
    LET distance_to_target == DistanceToTarget
        angular_error ==
          compute_angular_error_with_arrival(vehicle.state.position, vehicle.state.angle,
                                             map.target, distance_to_target)
        velocity_relative ==
          RDiv(vehicle.state.velocity * DegScale, vehicle.characteristics.max_velocity)
        control == compute_control(NavigationController(vehicle.characteristics),
                                   distance_to_target, angular_error, velocity_relative)
    IN clamp(control[1], -vehicle.characteristics.maneuverability,
             vehicle.characteristics.maneuverability)

\* an integration that applies the adjustment of a whole second whatever dt is
AngleIntegratedPerSecond(angular_adjustment_clamped) ==
    vehicle.state.angle + angular_adjustment_clamped

\* step(), 6: the heading before normalize_angle
AngleIntegrated(angular_adjustment_clamped) ==
    vehicle.state.angle + RDiv(angular_adjustment_clamped * dt, TimeScale)

\* a moving step that advances the position along the heading the step
\* began with and integrates the heading afterwards
MovedAlongOldHeading(angular_adjustment_clamped) ==
    LET old_position == vehicle.state.position
        new_x == old_position.x
                   + RDiv(RDiv(vehicle.state.velocity * Cos(vehicle.state.angle), TrigScale) * dt,
                          TimeScale)
        new_y == old_position.y
                   + RDiv(RDiv(vehicle.state.velocity * Sin(vehicle.state.angle), TrigScale) * dt,
                          TimeScale)
        moved == update_position(vehicle, Point(new_x, new_y))
        angle == normalize_angle(AngleIntegrated(angular_adjustment_clamped))
    IN [vehicle |-> [moved EXCEPT !.state.angle = angle, !.time_elapsed = time + dt],
        time |-> time + dt]

\* step(), 6-8: the vehicle and the clock after a moving step
Moved(angular_adjustment_clamped) ==
    LET angle == normalize_angle(AngleIntegrated(angular_adjustment_clamped))
        turned == [vehicle EXCEPT !.state.angle = angle]
        old_position == turned.state.position
        new_x == old_position.x
                   + RDiv(RDiv(turned.state.velocity * Cos(angle), TrigScale) * dt, TimeScale)
        new_y == old_position.y
                   + RDiv(RDiv(turned.state.velocity * Sin(angle), TrigScale) * dt, TimeScale)
        moved == update_position(turned, Point(new_x, new_y))
    IN [vehicle |-> [moved EXCEPT !.time_elapsed = time + dt],
        time |-> time + dt]

\* step(), 3-9: no arrival, the vehicle moves
StepMove ==
    \E distance_to_target \in {DistanceToTarget} :
    \E angular_adjustment_clamped \in {AngularAdjustmentClamped} :
    \E m \in {Moved(angular_adjustment_clamped)} :
       /\ vehicle' = m.vehicle
       /\ time' = m.time
       /\ trajectory' = Append(trajectory,
                               TrajectoryPoint(m.time, m.vehicle, distance_to_target))
       /\ control_calls' = control_calls + 1

\* an arrival detected only after the vehicle has moved
StepArriveAfterMoving ==
    \E distance_to_target \in {DistanceToTarget} :
    \E angular_adjustment_clamped \in {AngularAdjustmentClamped} :
    \E m \in {Moved(angular_adjustment_clamped)} :
       /\ vehicle' = [m.vehicle EXCEPT !.has_arrived = TRUE]
       /\ time' = m.time
       /\ trajectory' = Append(trajectory,
                               TrajectoryPoint(m.time, m.vehicle, distance_to_target))
       /\ control_calls' = control_calls + 1

\* step(), 2: arrival, the final point is recorded and step() returns
StepArrive ==
    /\ vehicle' = [vehicle EXCEPT !.has_arrived = TRUE]
    /\ trajectory' = Append(trajectory, TrajectoryPoint(time, vehicle, DistanceToTarget))
    /\ UNCHANGED <<time, control_calls>>

\* step() past the has_arrived guard
StepBody ==
    IF ArrivalCondition(DistanceToTarget, AngleError) THEN StepArrive ELSE StepMove

\* step() without its has_arrived guard
EarlyReturnMissing == StepBody

\* step(): the early return of an arrived vehicle
EarlyReturn == UNCHANGED <<vehicle, time, trajectory, control_calls>>

\* a step() that also advances the clock of every other instance, as one
\* clock shared by all instances would
OtherInstancesShareClock ==
    simulations' = [i \in DOMAIN simulations |->
                      [simulations[i] EXCEPT !.time = time']]

\* step(&mut self): the other instances are out of its reach
OtherInstances == UNCHANGED simulations

\* Simulation::step
step ==
    /\ IF vehicle.has_arrived THEN EarlyReturn ELSE StepBody
    /\ step_calls' = step_calls + 1
    /\ OtherInstances
    /\ UNCHANGED <<map, dt, max_time, initial>>

\* a caller invokes step() directly
Step ==
    /\ pc = "idle"
    /\ step_calls < MaxSteps
    /\ step
    /\ UNCHANGED <<pc, step_count, print_interval, result, call>>


\* usize::MAX, what an infinite f64 saturates to in "as usize"; it stands
\* above every step count
UsizeMax == 2147483647

\* run(): (5.0 / self.dt) as usize
PrintInterval(d) ==
    IF d = 0 THEN UsizeMax
    ELSE IF d < 0 THEN 0
    ELSE (5 * TimeScale) \div d

\* run(): the locals are set up and the loop is entered
RunBegin ==
    /\ pc = "idle"
    /\ pc' = "running"
    /\ step_count' = 0
    /\ print_interval' = PrintInterval(dt)
    /\ UNCHANGED <<simvars, result, step_calls, control_calls,
                   initial, simulations, call>>

\* run(): one iteration of the while loop; step_count % print_interval
\* panics when print_interval is 0
RunIter ==
    /\ pc = "running"
    /\ time < max_time /\ ~vehicle.has_arrived
    /\ step_calls < MaxSteps
    /\ step
    /\ step_count' = step_count + 1
    /\ pc' = IF print_interval = 0 THEN "panicked" ELSE "running"
    /\ UNCHANGED <<print_interval, result, call>>

\* metrics that report the clock as arrival time whether or not the vehicle arrived
RunMetricsAlwaysTimed ==
    LET final_distance == euclidean_distance(vehicle.state.position, map.target.position)
        final_angle_error == Abs(map.target.required_angle - vehicle.state.angle)
    IN [success |-> vehicle.has_arrived,
        arrival_time |-> Some(time),
        distance_traveled |-> vehicle.distance_traveled,
        final_angle_error |-> ToDegrees(final_angle_error),
        final_distance_to_target |-> final_distance]

\* run(): the SimulationMetrics built after the loop
RunMetrics ==
    LET final_distance == euclidean_distance(vehicle.state.position, map.target.position)
        final_angle_error == Abs(map.target.required_angle - vehicle.state.angle)
    IN [success |-> vehicle.has_arrived,
        arrival_time |-> IF vehicle.has_arrived THEN Some(time) ELSE None,
        distance_traveled |-> vehicle.distance_traveled,
        final_angle_error |-> ToDegrees(final_angle_error),
        final_distance_to_target |-> final_distance]

\* run(): the loop has ended, the SimulationResult is returned
RunEnd ==
    /\ pc = "running"
    /\ ~(time < max_time /\ ~vehicle.has_arrived)
    /\ pc' = "done"
    /\ result' = Some([vehicle_type |-> VehicleName(vehicle.vehicle_type),
                       trajectory |-> trajectory,
                       metrics |-> RunMetrics])
    /\ UNCHANGED <<simvars, step_count, print_interval, step_calls, control_calls,
                   initial, simulations, call>>

Next == Step \/ RunBegin \/ RunIter \/ RunEnd

Spec == Init /\ [][Next]_vars


(***************************************************************************)
(* Several instances under one driver                                      *)
(***************************************************************************)

\* the instance the driver is stepping, as its slot of the Vec holds it
ThisInstance ==
    [vehicle |-> vehicle, time |-> time, trajectory |-> trajectory,
     step_calls |-> step_calls, control_calls |-> control_calls,
     initial |-> initial]

\* Simulation::new for one vehicle type and one draw of the start
SimulationNew(vehicle_type, initial_pos, initial_angle) ==
    LET characteristics == create_vehicle_preset(vehicle_type)
        v == [VehicleNew(vehicle_type, characteristics, initial_pos, initial_angle)
                 EXCEPT !.state.velocity = constant_velocity(characteristics)]
    IN [vehicle |-> v, time |-> 0, trajectory |-> <<>>,
        step_calls |-> 0, control_calls |-> 0, initial |-> v]

\* the draws of (start position, start angle) explored with several instances
DriverStarts ==
    {<<Point(100 * LenScale, 10 * LenScale), ToRadians(3000)>>,
     <<Point(100 * LenScale, 16 * LenScale), RDiv(PI, 2)>>}

\* the drivers build every instance from one map, one dt and one max_time:
\* Simulation::new(map.clone(), vtype, request.dt, request.max_time)
DriverInit ==
    /\ map \in Maps
    /\ dt = 1 * TimeScale
    /\ max_time = 3 * TimeScale
    /\ \E first \in {SimulationNew(t, st[1], st[2]) : t \in InitTypes, st \in DriverStarts} :
          /\ vehicle = first.vehicle
          /\ initial = first.initial
    /\ simulations \in {<<SimulationNew(t, st[1], st[2])>> :
                           t \in InitTypes, st \in DriverStarts}
    /\ time = 0
    /\ trajectory = <<>>
    /\ pc = "idle"
    /\ step_count = 0
    /\ print_interval = 0
    /\ result = None
    /\ step_calls = 0
    /\ control_calls = 0
    /\ call = NoCall

\* the driver turns to another instance of its Vec
NextSimulation ==
    /\ pc = "idle"
    /\ \E i \in DOMAIN simulations :
          /\ vehicle' = simulations[i].vehicle
          /\ time' = simulations[i].time
          /\ trajectory' = simulations[i].trajectory
          /\ step_calls' = simulations[i].step_calls
          /\ control_calls' = simulations[i].control_calls
          /\ initial' = simulations[i].initial
          /\ simulations' = [simulations EXCEPT ![i] = ThisInstance]
    /\ UNCHANGED <<map, dt, max_time, pc, step_count, print_interval, result, call>>

DriverNext == Step \/ NextSimulation

DriverSpec == DriverInit /\ [][DriverNext]_vars


(***************************************************************************)
(* The fuzzy engine called on its own: constructors, evaluate, rules,      *)
(* systems and the defuzzifier, on arguments in 1/DegScale; each behaviour  *)
(* makes one call                                                          *)
(***************************************************************************)

\* the parameters handed to the constructors
TriangularParams == {0, 1, 500, 1000}

TrapezoidalParams == {0, 1, 300, 700, 1000}

GaussianParams == {-100, 0, 1, 100, 500}

SigmoidalParams == {-200, -1, 0, 1, 2, 3, 100, 500}

\* the inputs handed to evaluate
EvaluateInputs == {-100, 0, 1, 150, 250, 300, 400, 500, 600, 700, 750, 850, 1000, 1100}

\* every constructor call explored, as <<constructor, arguments, what it returns>>
ConstructorCalls ==
    {<<"triangular", <<a, b, c>>, triangular(a, b, c)>> :
        a \in TriangularParams, b \in TriangularParams, c \in TriangularParams}
    \cup
    {<<"trapezoidal", <<p[1], p[2], p[3], p[4]>>, trapezoidal(p[1], p[2], p[3], p[4])>> :
        p \in TrapezoidalParams \X TrapezoidalParams
                \X TrapezoidalParams \X TrapezoidalParams}
    \cup
    {<<"gaussian", <<mean, sigma>>, gaussian(mean, sigma)>> :
        mean \in GaussianParams, sigma \in GaussianParams}
    \cup
    {<<"sigmoidal", <<a, c>>, sigmoidal(a, c)>> :
        a \in SigmoidalParams, c \in SigmoidalParams}

\* the membership functions a caller can hold: the ones a constructor returned
MembershipFunctions == {k[3] : k \in {c \in ConstructorCalls : c[3].kind # "panic"}}

\* a caller calls one of the four constructors
CallConstructor ==
    /\ call = NoCall
    /\ \E k \in ConstructorCalls :
          call' = [fn |-> k[1], args |-> k[2], ret |-> k[3]]
    /\ UNCHANGED <<simvars, pc, step_count, print_interval, result,
                   step_calls, control_calls, initial, simulations>>

\* a caller evaluates a membership function it holds
CallEvaluate ==
    /\ call = NoCall
    /\ \E mf \in MembershipFunctions, input \in EvaluateInputs :
          call' = [fn |-> "evaluate", mf |-> mf, input |-> input,
                   ret |-> MfEvaluate(mf, input)]
    /\ UNCHANGED <<simvars, pc, step_count, print_interval, result,
                   step_calls, control_calls, initial, simulations>>

\* the input variables of the systems explored
TemperatureVariable ==
    LinguisticVariable("temperature", <<0, 100 * DegScale>>,
      << FuzzySet("cold", triangular(0, 0, 50 * DegScale)),
         FuzzySet("hot", triangular(50 * DegScale, 100 * DegScale, 100 * DegScale)) >>)

HumidityVariable ==
    LinguisticVariable("humidity", <<0, 100 * DegScale>>,
      << FuzzySet("dry", trapezoidal(0, 0, 20 * DegScale, 80 * DegScale)),
         FuzzySet("wet", trapezoidal(20 * DegScale, 80 * DegScale,
                                     100 * DegScale, 100 * DegScale)) >>)

\* the output variables explored: two sets mirrored about the midpoint of the
\* range, three sets of different shapes on a range that is not centred, and
\* two mirrored sets that overlap a third one in the middle
FanSpeedVariable ==
    LinguisticVariable("fan_speed", <<0, 100 * DegScale>>,
      << FuzzySet("low", triangular(0, 25 * DegScale, 50 * DegScale)),
         FuzzySet("high", triangular(50 * DegScale, 75 * DegScale, 100 * DegScale)) >>)

ValveVariable ==
    LinguisticVariable("valve", <<-10 * DegScale, 30 * DegScale>>,
      << FuzzySet("low", trapezoidal(-10 * DegScale, -10 * DegScale, 0, 10 * DegScale)),
         FuzzySet("mid", triangular(0, 5 * DegScale, 20 * DegScale)),
         FuzzySet("high", triangular(10 * DegScale, 30 * DegScale, 30 * DegScale)) >>)

DamperVariable ==
    LinguisticVariable("damper", <<-20 * DegScale, 20 * DegScale>>,
      << FuzzySet("close", trapezoidal(-20 * DegScale, -20 * DegScale,
                                       -10 * DegScale, 0)),
         FuzzySet("hold", triangular(-5 * DegScale, 0, 5 * DegScale)),
         FuzzySet("open", trapezoidal(0, 10 * DegScale,
                                      20 * DegScale, 20 * DegScale)) >>)

OutputVariables == {FanSpeedVariable, ValveVariable, DamperVariable}

\* the rules explored: rules that share an output set, a rule with a
\* consequent on a set the output does not have, rules with antecedents on a
\* variable or a set that do not exist, and a rule that resolves nothing
RulePool ==
    { FuzzyRule(<<Antecedent("cold", "temperature"), Antecedent("dry", "humidity")>>,
                <<Consequent("low", "fan_speed")>>, "And"),
      FuzzyRule(<<Antecedent("hot", "temperature"), Antecedent("wet", "humidity")>>,
                <<Consequent("high", "fan_speed")>>, "Or"),
      FuzzyRule(<<Antecedent("hot", "temperature"), Antecedent("dry", "humidity")>>,
                <<Consequent("low", "fan_speed")>>, "And"),
      FuzzyRule(<<Antecedent("cold", "temperature")>>,
                <<Consequent("turbo", "fan_speed"), Consequent("high", "fan_speed")>>,
                "And"),
      FuzzyRule(<<Antecedent("hot", "temperature"), Antecedent("high", "pressure"),
                  Antecedent("mild", "temperature")>>,
                <<Consequent("high", "fan_speed")>>, "And"),
      FuzzyRule(<<Antecedent("high", "pressure")>>,
                <<Consequent("low", "fan_speed")>>, "Or") }

\* FuzzySystem::new, add_input, set_output, add_rule: the systems explored
FuzzySystem(rules) ==
    [input_variables |-> <<TemperatureVariable, HumidityVariable>>,
     output_variable |-> FanSpeedVariable,
     rules |-> rules]

\* the rule bases explored: three different rules in every order
RuleBases ==
    {rules \in {<<r1, r2, r3>> : r1 \in RulePool, r2 \in RulePool, r3 \in RulePool} :
        \A i, j \in DOMAIN rules : i # j => rules[i] # rules[j]}

\* the input maps handed to FuzzySystem::evaluate: humidity may be missing
InputMaps ==
    {[n \in {"temperature"} |-> t] : t \in {30 * DegScale, 100 * DegScale}}
    \cup
    {[n \in {"temperature", "humidity"} |->
         IF n = "temperature" THEN th[1] ELSE th[2]] :
       th \in {<<0, 10 * DegScale>>, <<30 * DegScale, 50 * DegScale>>,
               <<60 * DegScale, 50 * DegScale>>, <<100 * DegScale, 10 * DegScale>>}}

\* the activation maps handed to Defuzzifier::centroid
ActivationMaps(output_var) ==
    UNION {[names -> {0, 50, 100}] : names \in SUBSET SetNames(output_var)}

\* a caller evaluates one rule on the fuzzified inputs of a system
CallRuleEvaluate ==
    /\ call = NoCall
    /\ \E rule \in RulePool, inputs \in InputMaps :
          call' = [fn |-> "rule_evaluate", rule |-> rule, inputs |-> inputs,
                   ret |-> RuleEvaluate(rule, FuzzifyInputs(FuzzySystem(<<rule>>), inputs))]
    /\ UNCHANGED <<simvars, pc, step_count, print_interval, result,
                   step_calls, control_calls, initial, simulations>>

\* a caller evaluates a system
CallSystemEvaluate ==
    /\ call = NoCall
    /\ \E rules \in RuleBases, inputs \in InputMaps :
       \E system \in {FuzzySystem(rules)} :
       \E activated_outputs \in {Aggregate(system, FuzzifyInputs(system, inputs),
                                           EmptyMap, 1)} :
          call' = [fn |-> "system_evaluate", system |-> system, inputs |-> inputs,
                   activated_outputs |-> activated_outputs,
                   ret |-> SystemEvaluate(system, inputs)]
    /\ UNCHANGED <<simvars, pc, step_count, print_interval, result,
                   step_calls, control_calls, initial, simulations>>

\* a caller defuzzifies an activation map
CallCentroid ==
    /\ call = NoCall
    /\ \E output_var \in OutputVariables :
       \E activated \in ActivationMaps(output_var) :
          call' = [fn |-> "centroid", output_var |-> output_var,
                   activated |-> activated,
                   ret |-> centroid(output_var, activated)]
    /\ UNCHANGED <<simvars, pc, step_count, print_interval, result,
                   step_calls, control_calls, initial, simulations>>

\* the engine is exercised next to one simulation that nobody steps
FuzzyInit ==
    /\ map \in Maps
    /\ dt = 1 * TimeScale
    /\ max_time = 3 * TimeScale
    /\ \E first \in {SimulationNew("Heavy", Point(100 * LenScale, 10 * LenScale),
                                   ToRadians(3000))} :
          /\ vehicle = first.vehicle
          /\ initial = first.initial
    /\ simulations = <<>>
    /\ time = 0
    /\ trajectory = <<>>
    /\ pc = "idle"
    /\ step_count = 0
    /\ print_interval = 0
    /\ result = None
    /\ step_calls = 0
    /\ control_calls = 0
    /\ call = NoCall

FuzzyNext ==
    \/ CallConstructor
    \/ CallEvaluate
    \/ CallRuleEvaluate
    \/ CallSystemEvaluate
    \/ CallCentroid

FuzzySpec == FuzzyInit /\ [][FuzzyNext]_vars


(***************************************************************************)
(* The navigation controller called on its own: construction for a vehicle *)
(* type and compute_control on a grid of inputs; each behaviour makes one   *)
(* call                                                                    *)
(***************************************************************************)

\* the inputs handed to compute_control: distances in [0, 1000], angular
\* errors in [-PI, PI] with the corners of the input sets among them, relative
\* velocities in [0, 1]
ControlDistances ==
    {0, 90 * LenScale, 100 * LenScale, 375 * LenScale, 1000 * LenScale}

ControlErrorMagnitudes ==
    {0, ToRadians(700), ToRadians(1000), ToRadians(4500), ToRadians(8000),
     ToRadians(9000), ToRadians(13000), PI}

ControlErrors == ControlErrorMagnitudes \cup {-e : e \in ControlErrorMagnitudes}

ControlVelocities == {RDiv(DegScale, 10), DegScale}

\* the vehicle types whose controller is asked: the least and the most
\* maneuverable
ControlTypes == {"Heavy", "UltraAgile"}

\* the HashMap compute_control builds from its three arguments
ControlInputs(distance_to_target, angular_error, velocity_relative) ==
    [n \in {"distancia_al_objetivo", "error_angular", "velocidad_relativa"} |->
        CASE n = "distancia_al_objetivo" -> distance_to_target
          [] n = "error_angular" -> angular_error
          [] n = "velocidad_relativa" -> velocity_relative]

\* a caller builds the controller of a vehicle type
CallNavigationNew ==
    /\ call = NoCall
    /\ \E vehicle_type \in VehicleTypes :
          call' = [fn |-> "navigation_new", vehicle_type |-> vehicle_type,
                   ret |-> NavigationController(create_vehicle_preset(vehicle_type))]
    /\ UNCHANGED <<simvars, pc, step_count, print_interval, result,
                   step_calls, control_calls, initial, simulations>>

\* a caller asks the controller of a vehicle type for its control output; the
\* activations the rule loop of the fuzzy system arrives at are kept with it
CallComputeControl ==
    /\ call = NoCall
    /\ \E vehicle_type \in ControlTypes, distance_to_target \in ControlDistances,
          angular_error \in ControlErrors, velocity_relative \in ControlVelocities :
       \E controller \in {NavigationController(create_vehicle_preset(vehicle_type))} :
       \E activated_outputs \in
             {Aggregate(controller,
                        FuzzifyInputs(controller,
                                      ControlInputs(distance_to_target, angular_error,
                                                    velocity_relative)),
                        EmptyMap, 1)} :
          call' = [fn |-> "compute_control", vehicle_type |-> vehicle_type,
                   distance_to_target |-> distance_to_target,
                   angular_error |-> angular_error,
                   velocity_relative |-> velocity_relative,
                   activated_outputs |-> activated_outputs,
                   ret |-> compute_control(controller, distance_to_target,
                                           angular_error, velocity_relative)]
    /\ UNCHANGED <<simvars, pc, step_count, print_interval, result,
                   step_calls, control_calls, initial, simulations>>

NavigationNext == CallNavigationNew \/ CallComputeControl

NavigationSpec == FuzzyInit /\ [][NavigationNext]_vars


(***************************************************************************)
(* The geometry helper of the arrival approach called on its own; each     *)
(* behaviour makes one call                                                *)
(***************************************************************************)

\* the positions, headings and distances handed to
\* compute_angular_error_with_arrival: positions on every side of the target
\* of the maps explored, headings that make the difference of the angles
\* leave [-PI, PI], distances on both sides of APPROACH_START and at it
ArrivalPositions ==
    {Point(20 * LenScale, 40 * LenScale), Point(100 * LenScale, 10 * LenScale),
     Point(160 * LenScale, 100 * LenScale), Point(100 * LenScale, 160 * LenScale)}

ArrivalAngles == {-30000, 0, RDiv(PI, 2), 30000}

ArrivalDistances ==
    {0, 1, 30 * LenScale, 60 * LenScale, 90 * LenScale, APPROACH_START * LenScale - 1,
     APPROACH_START * LenScale, APPROACH_START * LenScale + 1, 300 * LenScale}

\* the offset of the approach point below the target:
\* MAX_OFFSET * (distance_to_target / APPROACH_START).powf(1.5)
ApproachOffset(distance_to_target) ==
    RDiv(MAX_OFFSET * LenScale
           * Powf15(RDiv(distance_to_target * TrigScale, APPROACH_START * LenScale)),
         TrigScale)

\* a caller asks for the angular error; for a distance within APPROACH_START
\* the offset of the approach point is kept with the call
CallAngularErrorWithArrival ==
    /\ call = NoCall
    /\ \E current_pos \in ArrivalPositions, current_angle \in ArrivalAngles,
          distance_to_target \in ArrivalDistances :
          call' = [fn |-> "compute_angular_error_with_arrival",
                   current_pos |-> current_pos, current_angle |-> current_angle,
                   target |-> map.target,
                   distance_to_target |-> distance_to_target,
                   offset |-> IF distance_to_target > APPROACH_START * LenScale THEN 0
                              ELSE ApproachOffset(distance_to_target),
                   ret |-> compute_angular_error_with_arrival(
                              current_pos, current_angle, map.target,
                              distance_to_target)]
    /\ UNCHANGED <<simvars, pc, step_count, print_interval, result,
                   step_calls, control_calls, initial, simulations>>

GeometryNext == CallAngularErrorWithArrival

GeometrySpec == FuzzyInit /\ [][GeometryNext]_vars


\* all the instances of the driver, each with its whole state
AllInstances == {ThisInstance} \cup {simulations[i] : i \in DOMAIN simulations}

(***************************************************************************)
(* The round-robin drivers: run_simulation and the navigation and          *)
(* visualizer binaries                                                     *)
(***************************************************************************)

\* the draws of (start position, start angle) explored under the round-robin
\* loop: one that turns for the whole run, one that arrives on the first
\* step, one that arrives after two moving steps
RoundRobinStarts ==
    DriverStarts \cup {<<Point(100 * LenScale, 10 * LenScale), RDiv(PI, 2)>>}

\* request.max_time of the explored requests
RoundRobinMaxTimes == {0, 3 * TimeScale}

\* the driver's Vec<Simulation>, every instance built from one map, one dt
\* and one max_time; the first slot is held in the simulation variables
RoundRobinInit ==
    /\ map \in Maps
    /\ dt = 1 * TimeScale
    /\ max_time \in RoundRobinMaxTimes
    /\ \E first \in {SimulationNew(t, st[1], st[2]) : t \in InitTypes, st \in RoundRobinStarts} :
          /\ vehicle = first.vehicle
          /\ initial = first.initial
    /\ simulations \in {<<SimulationNew(t, st[1], st[2])>> :
                           t \in InitTypes, st \in RoundRobinStarts}
    /\ time = 0
    /\ trajectory = <<>>
    /\ pc = "idle"
    /\ step_count = 0
    /\ print_interval = 0
    /\ result = None
    /\ step_calls = 0
    /\ control_calls = 0
    /\ call = NoCall

\* let mut time = 0.0; let mut all_arrived = false;
\* at: where the driver is ("while": at the loop condition, "for": about to
\* visit the simulation of index sim, "visited": past it, "done": returned)
RunSimulationBegin ==
    /\ call = NoCall
    /\ call' = [fn |-> "run_simulation", at |-> "while", time |-> 0,
                all_arrived |-> FALSE, sim |-> 1]
    /\ UNCHANGED <<simvars, pc, step_count, print_interval, result, step_calls,
                   control_calls, initial, simulations>>

\* while time < max_time && !all_arrived: the loop body is entered
RunSimulationWhile ==
    /\ call.fn = "run_simulation" /\ call.at = "while"
    /\ call.time < max_time /\ ~call.all_arrived
    /\ call' = [call EXCEPT !.at = "for", !.sim = 1]
    /\ UNCHANGED <<simvars, pc, step_count, print_interval, result, step_calls,
                   control_calls, initial, simulations>>

\* a loop body that steps every simulation, arrived or not
VisitUnguarded == step

\* if !sim.vehicle.has_arrived { sim.step(); }
Visit ==
    IF ~vehicle.has_arrived
    THEN step
    ELSE UNCHANGED <<simvars, step_calls, control_calls, initial, simulations>>

\* for sim in &mut simulations: the body for the simulation the loop is at
RunSimulationVisit ==
    /\ call.fn = "run_simulation" /\ call.at = "for"
    /\ Visit
    /\ call' = [call EXCEPT !.at = "visited"]
    /\ UNCHANGED <<pc, step_count, print_interval, result>>

\* time += dt; all_arrived = simulations.iter().all(|s| s.vehicle.has_arrived);
EndOfRound(c) ==
    [c EXCEPT !.at = "while", !.sim = 1, !.time = @ + dt,
              !.all_arrived = \A s \in AllInstances : s.vehicle.has_arrived]

\* the for loop moves on: the other slot of the Vec is taken up, and past the
\* last slot the round ends
RunSimulationAdvance ==
    /\ call.fn = "run_simulation" /\ call.at = "visited"
    /\ vehicle' = simulations[1].vehicle
    /\ time' = simulations[1].time
    /\ trajectory' = simulations[1].trajectory
    /\ step_calls' = simulations[1].step_calls
    /\ control_calls' = simulations[1].control_calls
    /\ initial' = simulations[1].initial
    /\ simulations' = <<ThisInstance>>
    /\ call' = IF call.sim < 1 + Len(simulations)
               THEN [call EXCEPT !.at = "for", !.sim = @ + 1]
               ELSE EndOfRound(call)
    /\ UNCHANGED <<map, dt, max_time, pc, step_count, print_interval, result>>

\* the drivers' distance_traveled: the segments between consecutive
\* trajectory points, summed
RecomputedDistance(points) ==
    LET RECURSIVE Sum(_)
        Sum(j) ==
           IF j < 2 THEN 0
           ELSE Sum(j - 1)
                  + euclidean_distance(Point(points[j - 1].x, points[j - 1].y),
                                       Point(points[j].x, points[j].y))
    IN Sum(Len(points))

\* the VehicleSimulationResult collected from one simulation
VehicleSimulationResult(sim) ==
    LET success == sim.vehicle.has_arrived
        final_point == sim.trajectory[Len(sim.trajectory)]
    IN [vehicle_type |-> VehicleName(sim.vehicle.vehicle_type),
        trajectory |-> sim.trajectory,
        metrics |->
           [success |-> success,
            arrival_time |-> IF success THEN Some(sim.vehicle.time_elapsed) ELSE None,
            distance_traveled |-> RecomputedDistance(sim.trajectory),
            final_angle_error |->
               IF sim.trajectory # <<>>
               THEN Abs(90 * DegScale - final_point.angle)
               ELSE Abs(90 * DegScale - ToDegrees(sim.vehicle.state.angle)),
            final_distance_to_target |->
               IF sim.trajectory # <<>>
               THEN final_point.distance_to_target
               ELSE euclidean_distance(sim.vehicle.state.position,
                                       map.target.position)]]

\* the loop has ended: the results are collected in the order of the Vec and
\* returned with the driver clock as total_simulation_time
RunSimulationCollect ==
    /\ call.fn = "run_simulation" /\ call.at = "while"
    /\ ~(call.time < max_time /\ ~call.all_arrived)
    /\ call' = [call EXCEPT !.at = "done"]
    /\ result' = Some([vehicles |-> <<VehicleSimulationResult(ThisInstance),
                                      VehicleSimulationResult(simulations[1])>>,
                       total_simulation_time |-> call.time])
    /\ UNCHANGED <<simvars, pc, step_count, print_interval, step_calls,
                   control_calls, initial, simulations>>

RoundRobinNext ==
    \/ RunSimulationBegin
    \/ RunSimulationWhile
    \/ RunSimulationVisit
    \/ RunSimulationAdvance
    \/ RunSimulationCollect

RoundRobinSpec == RoundRobinInit /\ [][RoundRobinNext]_vars


(***************************************************************************)
(* Properties                                                              *)
(***************************************************************************)

\* C1: has_arrived is set only by a step that began with the distance to the
\* target strictly below 25 and the heading strictly within 2 degrees of the
\* required angle; a step beginning at distance 25 or at 2 degrees leaves it false
ArrivalRequiresBothThresholds ==
    [][(~vehicle.has_arrived /\ vehicle'.has_arrived) =>
          /\ euclidean_distance(vehicle.state.position, map.target.position) < 25 * LenScale
          /\ Abs(map.target.required_angle - vehicle.state.angle) < ToRadians(200)]_vars

\* an arrived vehicle, its final point within both thresholds
ArrivalReached ==
    /\ vehicle.has_arrived
    /\ trajectory # <<>>
    /\ trajectory[Len(trajectory)].distance_to_target < 25 * LenScale

\* C2: once has_arrived holds, no step changes the vehicle (position, angle,
\* velocity, time_elapsed, distance_traveled, has_arrived), the clock or the
\* trajectory
ArrivedIsAbsorbing ==
    [][vehicle.has_arrived => UNCHANGED <<vehicle, time, trajectory, control_calls>>]_vars

\* step() has been called on an arrived vehicle: more calls than points
SteppedAfterArrival ==
    vehicle.has_arrived /\ step_calls > Len(trajectory)

\* C3: the step that sets has_arrived changes nothing else of the vehicle,
\* leaves the clock alone, does not call the controller and appends exactly
\* one point, the snapshot of that unchanged state at the current time
ArrivalStepDoesNotMove ==
    [][(~vehicle.has_arrived /\ vehicle'.has_arrived) =>
          /\ vehicle' = [vehicle EXCEPT !.has_arrived = TRUE]
          /\ time' = time
          /\ control_calls' = control_calls
          /\ trajectory' = trajectory \o
               << [t |-> time,
                   x |-> vehicle.state.position.x,
                   y |-> vehicle.state.position.y,
                   angle |-> ToDegrees(vehicle.state.angle),
                   velocity |-> vehicle.state.velocity,
                   distance_to_target |->
                     euclidean_distance(vehicle.state.position, map.target.position)] >>]_vars

\* an arrival that followed at least one moving step
ArrivedAfterMoving ==
    vehicle.has_arrived /\ control_calls >= 1 /\ dt > 0

\* C4: the trajectory holds one point per moving step, stamped dt, 2*dt, ...,
\* k*dt in order, plus one terminal point stamped with the current time exactly
\* when has_arrived; a step appends at most one point and changes no earlier one
TrajectoryShape ==
    /\ [](LET n == Len(trajectory)
              k == control_calls
          IN /\ n = k + (IF vehicle.has_arrived THEN 1 ELSE 0)
             /\ \A i \in 1..k : trajectory[i].t = i * dt
             /\ vehicle.has_arrived => trajectory[n].t = time)
    /\ [][\/ trajectory' = trajectory
          \/ /\ Len(trajectory') = Len(trajectory) + 1
             /\ SubSeq(trajectory', 1, Len(trajectory)) = trajectory]_vars

\* several moving steps and then the terminal point
MovedThenArrived ==
    vehicle.has_arrived /\ Len(trajectory) >= 3 /\ dt > 0

\* C5: run()'s loop terminates whatever dt and max_time the simulation was
\* built with: every iteration that leaves the loop running has either set
\* has_arrived or advanced the clock towards max_time (step() is a function of
\* the simulation's state, so an iteration that does neither repeats forever)
RunLoopTerminates ==
    [][(pc = "running" /\ pc' = "running") =>
          (vehicle'.has_arrived \/ time' > time)]_vars

\* C6: for every dt > 0 run() returns its result; it never unwinds with a panic
RunNeverPanics ==
    dt > 0 => pc # "panicked"

\* C7: when run() returns with dt > 0 and max_time > 0, the trajectory is not
\* empty, success is has_arrived, arrival_time is absent exactly when success
\* is false, and on success the last point lies within 25 of the target and
\* carries the arrival time, which is both the clock and vehicle.time_elapsed
RunMetricsConsistent ==
    (pc = "done" /\ dt > 0 /\ max_time > 0) =>
        LET r == result[1]
            n == Len(r.trajectory)
        IN /\ n > 0
           /\ r.trajectory = trajectory
           /\ r.metrics.success = vehicle.has_arrived
           /\ (r.metrics.arrival_time = None) <=> ~r.metrics.success
           /\ r.metrics.success =>
                /\ r.trajectory[n].distance_to_target < 25 * LenScale
                /\ r.metrics.arrival_time = Some(r.trajectory[n].t)
                /\ r.trajectory[n].t = time
                /\ time = vehicle.time_elapsed

\* run() has returned from a successful run of at least two steps
RunReturnedSuccess ==
    /\ pc = "done" /\ dt > 0 /\ max_time > 0
    /\ result[1].metrics.success
    /\ step_count >= 2

\* C8: distance_traveled starts at 0 and never decreases; a moving step adds
\* the Euclidean length of its change of position, every other step adds nothing
DistanceTraveledMonotone ==
    /\ [](step_calls = 0 => vehicle.distance_traveled = 0)
    /\ [][/\ vehicle'.distance_traveled >= vehicle.distance_traveled
          /\ vehicle'.distance_traveled - vehicle.distance_traveled =
               euclidean_distance(vehicle.state.position, vehicle'.state.position)]_vars

\* the vehicle has moved over several steps
TraveledSeveralSteps ==
    control_calls >= 2 /\ vehicle.distance_traveled > 0

VelocityConstant ==
    /\ vehicle.state.velocity * 10 =
         create_vehicle_preset(vehicle.vehicle_type).max_velocity
    /\ \A distance_to_target \in {DistanceToTarget} :
         (pc \in {"idle", "running"} /\ ~vehicle.has_arrived
            /\ ~ArrivalCondition(distance_to_target, AngleError)) =>
           \A angular_error \in {compute_angular_error_with_arrival(
                                     vehicle.state.position,
                                     vehicle.state.angle,
                                     map.target, distance_to_target)} :
              \A control \in {compute_control(
                                 NavigationController(vehicle.characteristics),
                                 distance_to_target, angular_error,
                                 RDiv(vehicle.state.velocity * DegScale,
                                      vehicle.characteristics.max_velocity))} :
                 control[2] = 0

\* moving, arriving and post-arrival steps have all been taken
AllKindsOfStepTaken ==
    /\ control_calls >= 1
    /\ vehicle.has_arrived
    /\ step_calls > Len(trajectory)


MembershipInUnitInterval ==
    call.fn = "evaluate" => (call.ret >= 0 /\ call.ret <= DegScale)

\* the piecewise-linear definition of Triangular(a, b, c) and
\* Trapezoidal(a, b, c, d), the plateau of a triangle being the point b
PiecewiseLinear(mf, x) ==
    LET top == IF mf.kind = "triangular" THEN mf.b ELSE mf.c
        last == IF mf.kind = "triangular" THEN mf.c ELSE mf.d
    IN IF x < mf.a \/ x > last THEN 0
       ELSE IF x >= mf.b /\ x <= top THEN DegScale
       ELSE IF x < mf.b THEN RDiv((x - mf.a) * DegScale, mf.b - mf.a)
       ELSE RDiv((last - x) * DegScale, last - top)

\* C19: evaluate of a triangular or trapezoidal function returns the value of
\* its piecewise-linear definition
MatchesPiecewiseLinear ==
    (call.fn = "evaluate" /\ call.mf.kind \in {"triangular", "trapezoidal"})
       => call.ret = PiecewiseLinear(call.mf, call.input)

\* the parameters each constructor is documented to accept
ValidParameters(fn, args) ==
    CASE fn = "triangular" -> args[1] <= args[2] /\ args[2] <= args[3]
      [] fn = "trapezoidal" -> args[1] <= args[2] /\ args[2] <= args[3]
                                  /\ args[3] <= args[4]
      [] fn = "gaussian" -> args[2] > 0
      [] fn = "sigmoidal" -> args[1] # 0

\* C20: a constructor panics on invalid parameters and returns the function
\* on every valid parameter tuple
ConstructorsValidate ==
    call.fn \in {"triangular", "trapezoidal", "gaussian", "sigmoidal"} =>
       (call.ret.kind = "panic" <=> ~ValidParameters(call.fn, call.args))


\* the largest and the smallest element of a non-empty set of numbers
SetMax(S) == CHOOSE m \in S : \A x \in S : x <= m

SetMin(S) == CHOOSE m \in S : \A x \in S : m <= x

\* the rules of a system that have a consequent naming the set
RulesNaming(system, set) ==
    {i \in DOMAIN system.rules :
        \E j \in DOMAIN system.rules[i].consequents :
           system.rules[i].consequents[j].set = set}

\* the output sets that some rule consequent names
NamedOutputSets(system) ==
    {n \in SetNames(system.output_variable) : RulesNaming(system, n) # {}}

\* C12: the activation of every output set that a consequent names is the
\* maximum of the firing strengths of the rules naming it, no other set has
\* an activation, and neither the activations nor the defuzzified value
\* change when the rules are put into another order
AggregationIsMaximum ==
    call.fn = "system_evaluate" =>
       LET system == call.system
           fuzzyfied == FuzzifyInputs(system, call.inputs)
           reversed == [system EXCEPT !.rules =
                          [i \in DOMAIN system.rules |->
                              system.rules[Len(system.rules) + 1 - i]]]
       IN /\ DOMAIN call.activated_outputs = NamedOutputSets(system)
          /\ \A n \in NamedOutputSets(system) :
                call.activated_outputs[n] =
                   SetMax({RuleEvaluate(system.rules[i], fuzzyfied) :
                              i \in RulesNaming(system, n)})
          /\ \A p \in Permutations(DOMAIN system.rules) :
                Aggregate([system EXCEPT !.rules =
                              [i \in DOMAIN system.rules |-> system.rules[p[i]]]],
                          fuzzyfied, EmptyMap, 1) = call.activated_outputs
          /\ SystemEvaluate(reversed, call.inputs) = call.ret

\* two rules that fired with different positive strengths name the same set
SharedOutputSet ==
    /\ call.fn = "system_evaluate"
    /\ \E n \in NamedOutputSets(call.system) :
       \E i, k \in RulesNaming(call.system, n) :
          LET fuzzyfied == FuzzifyInputs(call.system, call.inputs)
              d1 == RuleEvaluate(call.system.rules[i], fuzzyfied)
              d2 == RuleEvaluate(call.system.rules[k], fuzzyfied)
          IN d1 > 0 /\ d2 > d1

\* the antecedents of a rule that resolve: their variable is in the caller's
\* input map and is a variable of the system that has their set
ResolvedAntecedents(system, rule, inputs) ==
    {i \in DOMAIN rule.antecedents :
        /\ rule.antecedents[i].variable \in DOMAIN inputs
        /\ \E v \in DOMAIN system.input_variables :
              /\ system.input_variables[v].name = rule.antecedents[i].variable
              /\ rule.antecedents[i].set \in SetNames(system.input_variables[v])}

\* the degree of a resolved antecedent: its set evaluated at the caller's value
AntecedentDegree(system, ant, inputs) ==
    LET v == CHOOSE v \in DOMAIN system.input_variables :
                system.input_variables[v].name = ant.variable
    IN MfEvaluate(SetNamed(system.input_variables[v], ant.set).membership_function,
                  inputs[ant.variable])

WithoutElement(seq, j) == SubSeq(seq, 1, j - 1) \o SubSeq(seq, j + 1, Len(seq))

\* C14: a consequent on a set the output variable does not have adds no entry
\* to the activations, and the system evaluates to what it evaluates to with
\* that consequent removed
UnknownConsequentIgnored ==
    call.fn = "system_evaluate" =>
       \A i \in DOMAIN call.system.rules :
       \A j \in DOMAIN call.system.rules[i].consequents :
          LET set == call.system.rules[i].consequents[j].set
              without == [call.system EXCEPT
                            !.rules[i].consequents = WithoutElement(@, j)]
          IN set \notin SetNames(call.system.output_variable) =>
                /\ set \notin DOMAIN call.activated_outputs
                /\ Aggregate(without, FuzzifyInputs(without, call.inputs), EmptyMap, 1)
                      = call.activated_outputs
                /\ SystemEvaluate(without, call.inputs) = call.ret

\* a rule with a consequent on an unknown set has fired
UnknownConsequentFired ==
    /\ call.fn = "system_evaluate"
    /\ \E i \in DOMAIN call.system.rules :
          /\ \E j \in DOMAIN call.system.rules[i].consequents :
                call.system.rules[i].consequents[j].set
                   \notin SetNames(call.system.output_variable)
          /\ RuleEvaluate(call.system.rules[i],
                          FuzzifyInputs(call.system, call.inputs)) > 0


\* (range.min + range.max) / 2
Midpoint(range) == RDiv(range[1] + range[2], 2)

\* no set is activated, or every activated set has degree 0
NothingActivated(activated) == \A n \in DOMAIN activated : activated[n] = 0

\* C15: when no output set is activated or every activated set has degree 0,
\* Defuzzifier::centroid and FuzzySystem::evaluate return the midpoint of the
\* output range
NoActivationGivesMidpoint ==
    /\ (call.fn = "centroid" /\ NothingActivated(call.activated)) =>
          call.ret = Midpoint(call.output_var.range)
    /\ (call.fn = "system_evaluate" /\ NothingActivated(call.activated_outputs)) =>
          call.ret = Midpoint(call.system.output_variable.range)

\* a system none of whose rules fired has been evaluated
NoRuleFired ==
    /\ call.fn = "system_evaluate"
    /\ call.activated_outputs # EmptyMap
    /\ NothingActivated(call.activated_outputs)

\* m(x) of the Mamdani reference: the maximum over the activated sets of
\* min(set.evaluate(x), activation of the set)
MamdaniMembership(output_var, activated, x) ==
    SetMax({0} \cup
           {Min2(MfEvaluate(output_var.fuzzy_sets[k].membership_function, x),
                 activated[output_var.fuzzy_sets[k].name]) :
              k \in {l \in DOMAIN output_var.fuzzy_sets :
                        output_var.fuzzy_sets[l].name \in DOMAIN activated}})

\* <<sum of x * m(x), sum of m(x)>> over the samples lo..hi of the range split
\* into 1000 equal steps
RECURSIVE MamdaniSums(_, _, _, _)
MamdaniSums(output_var, activated, lo, hi) ==
    IF lo = hi
    THEN LET x == output_var.range[1]
                    + RDiv(lo * (output_var.range[2] - output_var.range[1]), 1000)
             m == MamdaniMembership(output_var, activated, x)
         IN <<x * m, m>>
    ELSE LET half == (hi - lo + 1) \div 2
             l == MamdaniSums(output_var, activated, lo, lo + half - 1)
             r == MamdaniSums(output_var, activated, lo + half, hi)
         IN <<l[1] + r[1], l[2] + r[2]>>

Mirror(mf, range) ==
    LET r == range[1] + range[2]
    IN IF mf.kind = "triangular"
       THEN [kind |-> "triangular", a |-> r - mf.c, b |-> r - mf.b, c |-> r - mf.a]
       ELSE [kind |-> "trapezoidal", a |-> r - mf.d, b |-> r - mf.c,
             c |-> r - mf.b, d |-> r - mf.a]

\* the activated sets are mirror images of each other with equal degrees
MirroredActivation(output_var, activated) ==
    LET on == {k \in DOMAIN output_var.fuzzy_sets :
                  output_var.fuzzy_sets[k].name \in DOMAIN activated}
    IN /\ on # {}
       /\ \A k \in on : \E l \in on :
             /\ output_var.fuzzy_sets[l].membership_function =
                   Mirror(output_var.fuzzy_sets[k].membership_function,
                          output_var.range)
             /\ activated[output_var.fuzzy_sets[l].name] =
                   activated[output_var.fuzzy_sets[k].name]

\* C17: when the activated sets mirror each other about the midpoint of the
\* range with equal degrees, the centroid is the midpoint, to within one unit
\* of the fixed point
SymmetricCentroidIsMidpoint ==
    (call.fn = "centroid" /\ MirroredActivation(call.output_var, call.activated)) =>
       Abs(call.ret - Midpoint(call.output_var.range)) <= 1

\* two sets that mirror each other, neither its own mirror image, have been
\* defuzzified with the same positive degree
MirroredSetsDefuzzified ==
    /\ call.fn = "centroid"
    /\ MirroredActivation(call.output_var, call.activated)
    /\ \E n \in DOMAIN call.activated :
          /\ call.activated[n] > 0
          /\ SetNamed(call.output_var, n).membership_function #
                Mirror(SetNamed(call.output_var, n).membership_function,
                       call.output_var.range)


\* the shape of the navigation rule base: count rules, all of them AND, one
\* rule for each pair of a distance set and an error set, and two rules with
\* the very-deviated set as their only antecedent, turning hard to that side
RuleBaseShape(system, count) ==
    LET rules == system.rules
        Pair(d, e) == <<Antecedent(d, "distancia_al_objetivo"),
                        Antecedent(e, "error_angular")>>
        Override(e, out) ==
          FuzzyRule(<<Antecedent(e, "error_angular")>>,
                    <<Consequent(out, "ajuste_angular")>>, "And")
    IN /\ Len(rules) = count
       /\ \A i \in DOMAIN rules : rules[i].operator = "And"
       /\ \A d \in {"muy_cerca", "media", "lejos"} :
          \A e \in {"alineado", "desviado_izq", "desviado_der"} :
             Cardinality({i \in DOMAIN rules : rules[i].antecedents = Pair(d, e)}) = 1
       /\ Cardinality({i \in DOMAIN rules :
                          rules[i] = Override("muy_desviado_izq", "girar_izq")}) = 1
       /\ Cardinality({i \in DOMAIN rules :
                          rules[i] = Override("muy_desviado_der", "girar_der")}) = 1
       /\ Cardinality({i \in DOMAIN rules : Len(rules[i].antecedents) = 1}) = 2
       /\ Len(system.input_variables) = 3
       /\ system.output_variable.name = "ajuste_angular"
       /\ \A i \in DOMAIN rules : \A j \in DOMAIN rules[i].consequents :
             rules[i].consequents[j].variable = system.output_variable.name

RulesCoverAllInputs ==
    call.fn = "compute_control" =>
       \E n \in DOMAIN call.activated_outputs : call.activated_outputs[n] > 0


\* C30: compute_control's angular adjustment is >= 0 when the angular error
\* is > 0 and <= 0 when it is < 0, and it is the negative of the adjustment
\* computed for the negated angular error, for every distance, relative
\* velocity and vehicle maneuverability
NeverSteersAway ==
    call.fn = "compute_control" =>
       /\ call.angular_error > 0 => call.ret[1] >= 0
       /\ call.angular_error < 0 => call.ret[1] <= 0
       /\ \A mirrored \in
               {compute_control(
                   NavigationController(create_vehicle_preset(call.vehicle_type)),
                   call.distance_to_target, -call.angular_error,
                   call.velocity_relative)} :
             mirrored[1] = -call.ret[1]

\* the controller has turned towards a deviation to the negative side, at a
\* distance where the near and the medium set overlap and both their rules fire
SteeredTowardsBearing ==
    /\ call.fn = "compute_control"
    /\ call.angular_error = -ToRadians(4500) /\ call.ret[1] < 0
    /\ call.distance_to_target = 90 * LenScale
    /\ call.activated_outputs["leve_izq"] > 0


\* the desired bearing towards a point minus the current heading, wrapped
\* into [-PI, PI]
ErrorTowards(point, current_pos, current_angle) ==
    LET raw == Atan2(point.y - current_pos.y, point.x - current_pos.x) - current_angle
    IN CHOOSE e \in -PI..PI :
          (e - raw) % (2 * PI) = 0 /\ (Abs(e) = PI => (e > 0) = (raw > 0))

\* offset is 100 * (d / 120)^1.5 to within the rounding of the fixed point:
\* (offset / 100)^2 = (d / 120)^3, both sides in 1/10^9
IsOffsetOf(offset, d) ==
    LET r == RDiv(d * 1000, APPROACH_START * LenScale)
    IN Abs(10 * offset * offset - r * r * r) <= 500000

\* C23: compute_angular_error_with_arrival aims straight at the target exactly
\* when distance > 120; for every distance d <= 120 it aims at the point
\* (target.x, target.y - offset) with offset = 100 * (d / 120)^1.5, which is 0
\* at d = 0, non-decreasing in d and 100 at d = 120; the returned error is the
\* desired bearing minus the current heading, wrapped into [-PI, PI]
AimsAtApproachPoint ==
    call.fn = "compute_angular_error_with_arrival" =>
       LET d == call.distance_to_target
           target_pos == call.target.position
           aim == IF d > 120 * LenScale THEN target_pos
                  ELSE Point(target_pos.x, target_pos.y - call.offset)
       IN /\ call.ret = ErrorTowards(aim, call.current_pos, call.current_angle)
          /\ call.ret >= -PI /\ call.ret <= PI
          /\ d <= 120 * LenScale =>
                /\ IsOffsetOf(call.offset, d)
                /\ d = 0 => call.offset = 0
                /\ d = 120 * LenScale => call.offset = 100 * LenScale
                /\ \A smaller \in {e \in ArrivalDistances : e <= d} :
                      ApproachOffset(smaller) <= call.offset

\* the error has been asked for at the distance 120 itself, from a position
\* off the vertical through the target, and has been wrapped
AimedFromApproachStart ==
    /\ call.fn = "compute_angular_error_with_arrival"
    /\ call.distance_to_target = 120 * LenScale
    /\ call.current_pos.x # call.target.position.x
    /\ Abs(Atan2(call.target.position.y - call.offset - call.current_pos.y,
                 call.target.position.x - call.current_pos.x)
           - call.current_angle) > PI


\* C24: a moving step integrates and normalizes the heading first, advances
\* the position by velocity * dt along the heading it has just updated, adds
\* that step's Euclidean length to distance_traveled, and then advances the
\* clock by dt and sets time_elapsed to it; in every reachable state
\* time_elapsed = time = (number of moving steps) * dt
StepOrderPreserved ==
    /\ [](vehicle.time_elapsed = time /\ time = control_calls * dt)
    /\ [][control_calls' # control_calls =>
            LET old == vehicle.state
                new == vehicle'.state
                integrated == old.angle + RDiv(AngularAdjustmentClamped * dt, TimeScale)
            IN /\ (new.angle - integrated) % (2 * PI) = 0
               /\ new.angle >= -PI /\ new.angle <= PI
               /\ new.position.x = old.position.x
                     + RDiv(RDiv(new.velocity * Cos(new.angle), TrigScale) * dt, TimeScale)
               /\ new.position.y = old.position.y
                     + RDiv(RDiv(new.velocity * Sin(new.angle), TrigScale) * dt, TimeScale)
               /\ vehicle'.distance_traveled - vehicle.distance_traveled =
                     euclidean_distance(old.position, new.position)
               /\ time' = time + dt
               /\ vehicle'.time_elapsed = time']_vars

\* the vehicle has moved twice and its heading is no longer the initial one
MovedWhileTurning ==
    /\ control_calls >= 2 /\ dt > 0
    /\ vehicle.state.angle # initial.state.angle
    /\ vehicle.state.position # initial.state.position


\* C25: the angular adjustment a step applies lies within
\* [-maneuverability, +maneuverability], whatever the controller returns, so
\* between consecutive states the heading changes by at most
\* maneuverability * dt, modulo the 2*PI wrap
AdjustmentWithinManeuverability ==
    /\ [](LET m == vehicle.characteristics.maneuverability
          IN /\ \A output \in {-3 * m, -m - 1, -m, 0, m, m + 1, 3 * m} :
                   /\ clamp(output, -m, m) >= -m /\ clamp(output, -m, m) <= m
                   /\ (output >= -m /\ output <= m) => clamp(output, -m, m) = output
             /\ (pc \in {"idle", "running"} /\ ~vehicle.has_arrived
                   /\ ~ArrivalCondition(DistanceToTarget, AngleError)) =>
                   \A applied \in {AngularAdjustmentClamped} :
                      applied >= -m /\ applied <= m)
    /\ [][\E wraps \in -3..3 :
             Abs(vehicle'.state.angle - vehicle.state.angle - wraps * 2 * PI)
                <= RDiv(vehicle.characteristics.maneuverability * dt, TimeScale)]_vars

\* a step of one second has turned the vehicle by at least half of what its
\* maneuverability allows
TurnedAtFullRate ==
    /\ control_calls >= 1 /\ dt = 1 * TimeScale
    /\ \E i \in 1..Len(trajectory) :
          LET before == IF i = 1 THEN ToDegrees(initial.state.angle)
                        ELSE trajectory[i - 1].angle
          IN Abs(trajectory[i].angle - before) * 2
                >= ToDegrees(vehicle.characteristics.maneuverability)


\* C26: every trajectory point is a consistent snapshot: its
\* distance_to_target is the Euclidean distance from its own (x, y) to the
\* target, for the points of moving steps and for the terminal arrival point
SnapshotConsistent ==
    \A i \in DOMAIN trajectory :
       trajectory[i].distance_to_target =
          euclidean_distance(Point(trajectory[i].x, trajectory[i].y), map.target.position)


\* C27: run() reports success exactly when the final state of the vehicle
\* satisfies the arrival condition: a run that ends on the time limit with
\* has_arrived false leaves the vehicle outside distance < 25 or outside
\* angle error < 2 degrees
SuccessIffArrivalCondition ==
    pc = "done" =>
       (result[1].metrics.success
          <=> (/\ euclidean_distance(vehicle.state.position, map.target.position)
                     < 25 * LenScale
               /\ Abs(map.target.required_angle - vehicle.state.angle) < ToRadians(200)))


\* the round-robin driver has returned
RunSimulationDone == call.fn = "run_simulation" /\ call.at = "done"

\* C28: the distance_traveled the multi-vehicle drivers recompute from the
\* segments between consecutive trajectory points equals the vehicle's own
\* distance_traveled accumulator, for every simulation of every run
RecomputedEqualsAccumulator ==
    RunSimulationDone =>
       /\ result[1].vehicles[1].metrics.distance_traveled = vehicle.distance_traveled
       /\ result[1].vehicles[2].metrics.distance_traveled
             = simulations[1].vehicle.distance_traveled


=============================================================================
